---- MODULE Spec2Model ----
(***************************************************************************)
(* Model of client/rust/src/connection.rs: the Connection handle, a        *)
(* single-use server-side TCP primitive (bind, accept one client, close,   *)
(* automatic teardown on drop), together with the OS socket objects it     *)
(* creates and releases.                                                   *)
(***************************************************************************)
EXTENDS Integers, Sequences, FiniteSets

(* ------------------------------ bounds -------------------------------- *)

\* Number of distinct client streams the OS can hand out in one run.
MaxStreams == 2
\* Number of inbound connections that can wait on the listener.
MaxBacklog == 1

(* ------------------------- values and helpers ------------------------- *)

\* Option::None for the stream field (streams are numbered from 1), also
\* used for "no listener" (bound ports are never 0).
None == 0

StreamIds == 1..MaxStreams

\* Strings whose content matters (the port) are sequences of characters.
DigitChars == <<"0", "1", "2", "3", "4", "5", "6", "7", "8", "9">>

IsDigit(c) == \E i \in 1..10 : DigitChars[i] = c

DigitVal(c) == (CHOOSE i \in 1..10 : DigitChars[i] = c) - 1

\* u16::to_string(): the decimal digits of n, no sign, no leading zeros.
RECURSIVE ToString(_)
ToString(n) ==
    IF n < 10 THEN <<DigitChars[n + 1]>>
    ELSE Append(ToString(n \div 10), DigitChars[(n % 10) + 1])

RECURSIVE DigitsValue(_)
DigitsValue(s) ==
    IF s = <<>> THEN 0
    ELSE 10 * DigitsValue(SubSeq(s, 1, Len(s) - 1)) + DigitVal(s[Len(s)])

\* str::parse::<u16>() of the port part of "address:port": an optional '+',
\* then one or more decimal digits, value at most 65535; -1 when it fails.
ParsePort(s) ==
    LET d == IF s # <<>> /\ s[1] = "+" THEN Tail(s) ELSE s
    IN  IF d = <<>> \/ \E i \in 1..Len(d) : ~IsDigit(d[i]) THEN -1
        ELSE IF DigitsValue(d) > 2^16 - 1 THEN -1
        ELSE DigitsValue(d)

\* The constructor arguments a caller may pass.
Addresses == {"127.0.0.1", "localhost"}
InitPorts == {<<"0">>, <<"0", "0">>, <<"8", "0">>, <<"x">>}

\* Ports the OS hands out when asked to bind port 0 (never 0 itself).
EphemeralPorts == {49152, 49153}

\* std::io::Result<()> values.
Ok == [tag |-> "Ok", kind |-> "", msg |-> ""]
Err(k, m) == [tag |-> "Err", kind |-> k, msg |-> m]
Pending == [tag |-> "Pending", kind |-> "", msg |-> ""]
Unit == [tag |-> "Unit", kind |-> "", msg |-> ""]

\* The error connect() builds itself (ErrorKind::InvalidData and its fixed
\* message, written here without the quoting marks around Connection).
ReuseError == Err("InvalidData", "Cannot reuse a Connection.")

\* Errors the OS may report from each call.
BindErrors == {Err("AddrInUse", "os"), Err("AddrNotAvailable", "os")}
AcceptErrors == {Err("ConnectionAborted", "os")}
ShutdownErrors == {Err("NotConnected", "os"), Err("ConnectionReset", "os")}

(* ------------------------------- state -------------------------------- *)

VARIABLES
    address,     \* Connection.address
    port,        \* Connection.port
    stream,      \* Connection.stream: None or the id of the accepted stream
    used_up,     \* Connection.used_up
    pc,          \* "ready": between calls; "accepting": connect() blocked in
                 \* accept(); "dropped": the lifetime of the handle has ended
    listener,    \* the listener local to connect(): None or its bound port
    backlog,     \* inbound connections waiting on the listener
    accepted,    \* streams accept() has ever returned to this handle
    open,        \* accepted streams whose descriptor is still open
    shut,        \* streams on which a shutdown(Both) has succeeded
    tried,       \* streams on which a shutdown(Both) has been issued
    port0,       \* the port the handle was constructed with
    lastOp,      \* the most recent call: "new", "connect", "close", "drop"
    lastResult,  \* what that call returned
    lastIO       \* the OS calls that call issued, in order

fields == <<address, port, stream, used_up>>
os == <<listener, backlog, accepted, open, shut>>
vars == <<address, port, stream, used_up, pc, listener, backlog, accepted,
          open, shut, tried, port0, lastOp, lastResult, lastIO>>

TypeOK ==
    /\ address \in Addresses
    /\ port \in Seq({"+", "x"} \cup {DigitChars[i] : i \in 1..10})
    /\ stream \in StreamIds \cup {None}
    /\ used_up \in BOOLEAN
    /\ pc \in {"ready", "accepting", "dropped"}
    /\ listener \in (0..(2^16 - 1)) \cup {None}
    /\ backlog \in 0..MaxBacklog
    /\ accepted \subseteq StreamIds
    /\ open \subseteq accepted
    /\ shut \subseteq accepted
    /\ tried \subseteq accepted
    /\ shut \subseteq tried
    /\ port0 \in InitPorts
    /\ lastOp \in {"new", "connect", "close", "drop"}
    /\ lastResult.tag \in {"Ok", "Err", "Pending", "Unit"}
    /\ lastIO \in Seq({"bind", "local_addr", "accept", "shutdown"})

(* ----------------------------- Connection ----------------------------- *)

\* Connection::new: stores the two strings, no I/O.
Init ==
    /\ address \in Addresses
    /\ port \in InitPorts
    /\ port0 = port
    /\ stream = None
    /\ used_up = FALSE
    /\ pc = "ready"
    /\ listener = None
    /\ backlog = 0
    /\ accepted = {}
    /\ open = {}
    /\ shut = {}
    /\ tried = {}
    /\ lastOp = "new"
    /\ lastResult = Unit
    /\ lastIO = <<>>

\* Variant of DropValue: the value is forgotten and its descriptor stays open.
DropValueLeaks(st, opn) == opn

\* Dropping an Option<TcpStream> value: the descriptor of the stream it holds,
\* if any, is closed (assignment over the field, and the field drop that
\* follows Drop::drop, both run it).
DropValue(st, opn) == IF st = None THEN opn ELSE opn \ {st}

\* Variant of ReuseGuard: the condition is inverted.
ReuseGuardInverted(uu) == ~uu

\* Variant of ReuseGuard: the guard is missing.
ReuseGuardMissing(uu) == FALSE

\* connect(): the reuse guard, `if self.used_up`.
ReuseGuard(uu) == uu

\* Variant of BindOutcomes: the listener always asks the OS for a free port,
\* whatever port holds.
BindOutcomesAlwaysEphemeral(addr, p) ==
    LET n == ParsePort(p)
    IN  IF n = -1
        THEN {[tag |-> "Err", err |-> Err("InvalidInput", "invalid port value"),
               bound |-> -1]}
        ELSE {[tag |-> "Err", err |-> e, bound |-> -1] : e \in BindErrors}
             \cup {[tag |-> "Ok", err |-> Ok, bound |-> q] : q \in EphemeralPorts}

\* TcpListener::bind(format!("{}:{}", address, port)): the outcomes the OS
\* and the port parser can produce.
BindOutcomes(addr, p) ==
    LET n == ParsePort(p)
    IN  IF n = -1
        THEN {[tag |-> "Err", err |-> Err("InvalidInput", "invalid port value"),
               bound |-> -1]}
        ELSE {[tag |-> "Err", err |-> e, bound |-> -1] : e \in BindErrors}
             \cup {[tag |-> "Ok", err |-> Ok, bound |-> q] :
                     q \in IF n = 0 THEN EphemeralPorts ELSE {n}}

\* Variant of ResolvePort: the bound port is never written back.
ResolvePortSkipped(p, bound) == p

\* Variant of ResolvePort: the bound port is written back whatever port held.
ResolvePortAlways(p, bound) == ToString(bound)

\* connect(): `if self.port == "0" { self.port = ...port().to_string() }`.
ResolvePort(p, bound) == IF p = <<"0">> THEN ToString(bound) ELSE p

\* Variant of BindIO: after resolving port "0" the listener is bound again, to
\* the resolved port.
BindIORebinds(p) ==
    IF p = <<"0">> THEN <<"bind", "local_addr", "bind">> ELSE <<"bind">>

\* The OS calls connect() has issued once the listener is bound and port read.
BindIO(p) == IF p = <<"0">> THEN <<"bind", "local_addr">> ELSE <<"bind">>

\* connect() with used_up set: the early return with the reuse error.
ConnectRejected ==
    /\ pc = "ready"
    /\ ReuseGuard(used_up)
    /\ lastOp' = "connect"
    /\ lastResult' = ReuseError
    /\ lastIO' = <<>>
    /\ UNCHANGED <<fields, pc, os, tried, port0>>

\* connect() whose bind fails: `?` returns the error, nothing is stored.
ConnectBindErr ==
    /\ pc = "ready"
    /\ ~ReuseGuard(used_up)
    /\ \E b \in BindOutcomes(address, port) :
         /\ b.tag = "Err"
         /\ lastResult' = b.err
    /\ lastOp' = "connect"
    /\ lastIO' = <<"bind">>
    /\ UNCHANGED <<fields, pc, os, tried, port0>>

\* connect() whose bind succeeds: the port is resolved and the call blocks
\* in accept().
ConnectBound ==
    /\ pc = "ready"
    /\ ~ReuseGuard(used_up)
    /\ \E b \in BindOutcomes(address, port) :
         /\ b.tag = "Ok"
         /\ listener' = b.bound
         /\ port' = ResolvePort(port, b.bound)
    /\ pc' = "accepting"
    /\ backlog' = 0
    /\ lastOp' = "connect"
    /\ lastResult' = Pending
    /\ lastIO' = BindIO(port)
    /\ UNCHANGED <<address, stream, used_up, accepted, open, shut, tried, port0>>

\* A client dials the bound port and waits in the listener's queue.
ClientDial ==
    /\ pc = "accepting"
    /\ backlog < MaxBacklog
    /\ accepted # StreamIds
    /\ backlog' = backlog + 1
    /\ UNCHANGED <<fields, pc, listener, accepted, open, shut, tried, port0,
                   lastOp, lastResult, lastIO>>

\* The stream accept() returns: a descriptor never handed out before.
NewStream == CHOOSE id \in StreamIds \ accepted : \A j \in StreamIds \ accepted : id <= j

\* `self.stream = Some(stream)`: the open descriptors once the new stream is
\* stored and the value the field held before is dropped.
StoreStream(old, new, opn) == DropValue(old, opn) \cup {new}

\* Variant of ConnectAccepted: the stream held before is shut down before the
\* new one is stored.
ConnectAcceptedShutsOld ==
    /\ pc = "accepting"
    /\ backlog > 0
    /\ accepted # StreamIds
    /\ stream' = NewStream
    /\ accepted' = accepted \cup {NewStream}
    /\ open' = StoreStream(stream, NewStream, open)
    /\ shut' = IF stream = None THEN shut ELSE shut \cup {stream}
    /\ tried' = IF stream = None THEN tried ELSE tried \cup {stream}
    /\ listener' = None
    /\ backlog' = 0
    /\ pc' = "ready"
    /\ lastResult' = Ok
    /\ lastIO' = Append(lastIO, "accept")
    /\ UNCHANGED <<address, port, used_up, port0, lastOp>>

\* accept() returns a client: the stream is stored, connect() returns Ok and
\* the listener goes out of scope.
ConnectAccepted ==
    /\ pc = "accepting"
    /\ backlog > 0
    /\ accepted # StreamIds
    /\ stream' = NewStream
    /\ accepted' = accepted \cup {NewStream}
    /\ open' = StoreStream(stream, NewStream, open)
    /\ listener' = None
    /\ backlog' = 0
    /\ pc' = "ready"
    /\ lastResult' = Ok
    /\ lastIO' = Append(lastIO, "accept")
    /\ UNCHANGED <<address, port, used_up, shut, tried, port0, lastOp>>

\* Variant of ConnectAcceptErr: accept() gives up after a timeout when no
\* client has arrived.
ConnectAcceptTimesOut ==
    /\ pc = "accepting"
    /\ \/ \E e \in AcceptErrors : lastResult' = e
       \/ backlog = 0 /\ lastResult' = Err("TimedOut", "os")
    /\ listener' = None
    /\ backlog' = 0
    /\ pc' = "ready"
    /\ lastIO' = Append(lastIO, "accept")
    /\ UNCHANGED <<fields, accepted, open, shut, tried, port0, lastOp>>

\* Variant of ConnectAcceptErr: the listener is still open when the error is
\* returned.
ConnectAcceptErrKeepsListener ==
    /\ pc = "accepting"
    /\ \E e \in AcceptErrors : lastResult' = e
    /\ pc' = "ready"
    /\ lastIO' = Append(lastIO, "accept")
    /\ UNCHANGED <<fields, listener, backlog, accepted, open, shut, tried,
                   port0, lastOp>>

\* accept() fails: `?` returns the error and the listener goes out of scope.
ConnectAcceptErr ==
    /\ pc = "accepting"
    /\ \E e \in AcceptErrors : lastResult' = e
    /\ listener' = None
    /\ backlog' = 0
    /\ pc' = "ready"
    /\ lastIO' = Append(lastIO, "accept")
    /\ UNCHANGED <<fields, accepted, open, shut, tried, port0, lastOp>>

Connect == ConnectRejected \/ ConnectBindErr \/ ConnectBound

\* Variant of CloseNone: closing without a stream marks the handle used up.
CloseNoneMarksUsed(st, uu, opn, sh) ==
    [result |-> Ok, stream |-> st, used_up |-> TRUE, open |-> opn, shut |-> sh,
     io |-> <<>>]

\* Variant of CloseNone: closing without a stream reports an error.
CloseNoneFails(st, uu, opn, sh) ==
    [result |-> Err("NotConnected", "os"), stream |-> st, used_up |-> uu,
     open |-> opn, shut |-> sh, io |-> <<>>]

\* close(), arm `None => Ok(())`.
CloseNone(st, uu, opn, sh) ==
    [result |-> Ok, stream |-> st, used_up |-> uu, open |-> opn, shut |-> sh,
     io |-> <<>>]

\* Variant of CloseShutdownOk: the stream is not cleared.
CloseShutdownOkKeepsStream(st, uu, opn, sh) ==
    [result |-> Ok, stream |-> st, used_up |-> TRUE, open |-> opn,
     shut |-> sh \cup {st}, io |-> <<"shutdown">>]

\* close(), arm `Ok(()) => { used_up = true; stream = None; Ok(()) }`.
CloseShutdownOk(st, uu, opn, sh) ==
    [result |-> Ok, stream |-> None, used_up |-> TRUE,
     open |-> DropValue(st, opn), shut |-> sh \cup {st}, io |-> <<"shutdown">>]

\* Variant of CloseShutdownErr: a failed shutdown still marks the handle used up.
CloseShutdownErrMarksUsed(st, uu, opn, sh, e) ==
    [result |-> e, stream |-> st, used_up |-> TRUE, open |-> opn, shut |-> sh,
     io |-> <<"shutdown">>]

\* Variant of CloseShutdownErr: a failed shutdown still clears the stream.
CloseShutdownErrClears(st, uu, opn, sh, e) ==
    [result |-> e, stream |-> None, used_up |-> uu, open |-> DropValue(st, opn),
     shut |-> sh, io |-> <<"shutdown">>]

\* close(), arm `Err(e) => Err(e)`.
CloseShutdownErr(st, uu, opn, sh, e) ==
    [result |-> e, stream |-> st, used_up |-> uu, open |-> opn, shut |-> sh,
     io |-> <<"shutdown">>]

\* The streams a shutdown has been issued on, once a close() with OS calls
\* io has run on the stream st.
Issued(trd, st, io) == IF io = <<>> THEN trd ELSE trd \cup {st}

\* close(): every outcome the call can have from the given state.
CloseOutcomes(st, uu, opn, sh) ==
    IF st = None THEN {CloseNone(st, uu, opn, sh)}
    ELSE {CloseShutdownOk(st, uu, opn, sh)}
         \cup {CloseShutdownErr(st, uu, opn, sh, e) : e \in ShutdownErrors}

\* An explicit close() call.
Close ==
    /\ pc = "ready"
    /\ \E o \in CloseOutcomes(stream, used_up, open, shut) :
         /\ stream' = o.stream
         /\ used_up' = o.used_up
         /\ open' = o.open
         /\ shut' = o.shut
         /\ lastResult' = o.result
         /\ lastIO' = o.io
         /\ tried' = Issued(tried, stream, o.io)
    /\ lastOp' = "close"
    /\ UNCHANGED <<address, port, pc, listener, backlog, accepted, port0>>

\* Variant of Drop: the result of close() is not discarded; a failed shutdown
\* stops the teardown with that error.
DropSurfacesError ==
    /\ pc = "ready"
    /\ \E o \in CloseOutcomes(stream, used_up, open, shut) :
         /\ stream' = o.stream
         /\ used_up' = o.used_up
         /\ open' = IF o.result = Ok THEN DropValue(o.stream, o.open) ELSE o.open
         /\ shut' = o.shut
         /\ lastIO' = o.io
         /\ tried' = Issued(tried, stream, o.io)
         /\ lastResult' = IF o.result = Ok THEN Unit ELSE o.result
         /\ pc' = IF o.result = Ok THEN "dropped" ELSE "ready"
    /\ lastOp' = "drop"
    /\ UNCHANGED <<address, port, listener, backlog, accepted, port0>>

\* Drop for Connection: close() with its result discarded, then the fields
\* are dropped. stream and used_up keep the values Drop::drop left in them.
Drop ==
    /\ pc = "ready"
    /\ \E o \in CloseOutcomes(stream, used_up, open, shut) :
         /\ stream' = o.stream
         /\ used_up' = o.used_up
         /\ open' = DropValue(o.stream, o.open)
         /\ shut' = o.shut
         /\ lastIO' = o.io
         /\ tried' = Issued(tried, stream, o.io)
    /\ lastOp' = "drop"
    /\ lastResult' = Unit
    /\ pc' = "dropped"
    /\ UNCHANGED <<address, port, listener, backlog, accepted, port0>>

Next ==
    \/ ConnectRejected
    \/ ConnectBindErr
    \/ ConnectBound
    \/ ClientDial
    \/ ConnectAccepted
    \/ ConnectAcceptErr
    \/ Close
    \/ Drop

Spec == Init /\ [][Next]_vars

\* The blocking accept() returns once a connection waits on the listener:
\* the OS does not leave the call blocked with a client pending.
LiveSpec == Spec /\ WF_vars(ConnectAccepted)

(* ------------------------------ properties ---------------------------- *)

\* C1: whenever used_up is true, a connect() call returns the reuse error,
\* issues no bind and no accept (no listener exists afterwards, the call does
\* not block) and leaves address, port, stream, used_up and every OS object
\* unchanged.
C1_ReuseRejected ==
    [][(Connect /\ used_up) =>
         /\ lastResult' = ReuseError
         /\ lastIO' = <<>>
         /\ listener' = None
         /\ pc' = "ready"
         /\ UNCHANGED <<address, port, stream, used_up>>
         /\ UNCHANGED os]_vars

\* C1 witness: a connect() on a used-up handle has returned the reuse error.
C1_Witness ==
    used_up /\ lastOp = "connect" /\ lastResult = ReuseError /\ pc = "ready"

\* C2: used_up only ever changes from false to true, and only in a step that
\* runs close() (explicitly or from Drop) on a held stream whose shutdown
\* succeeds in that step; hence it changes at most once and is never reset.
C2_UsedUpMonotonic ==
    [][(used_up' # used_up) =>
         /\ ~used_up
         /\ used_up'
         /\ Close \/ Drop
         /\ stream # None
         /\ stream \notin shut
         /\ stream \in shut'
         /\ lastIO' = <<"shutdown">>]_vars

\* C2 witness: used_up has been set by a close() that shut the stream down.
C2_Witness ==
    used_up /\ lastOp = "close" /\ lastIO = <<"shutdown">> /\ shut # {}

\* C3 as stated: whenever close() is called right after a close(), both
\* calls returned success.
C3_Original ==
    [][(Close /\ lastOp = "close") => (lastResult = Ok /\ lastResult' = Ok)]_vars

\* C3 as amended: a close() called right after a close() that returned
\* success also returns success, issues no shutdown and changes no field and
\* no OS object, whether or not a connection was ever accepted.
C3_IdempotentAfterSuccess ==
    [][(Close /\ lastOp = "close" /\ lastResult = Ok) =>
         /\ lastResult' = Ok
         /\ lastIO' = <<>>
         /\ UNCHANGED fields
         /\ UNCHANGED os]_vars

\* C3 witness: the close() after a successful close() of an accepted stream
\* has returned success without a shutdown.
C3_Witness ==
    /\ lastOp = "close"
    /\ lastResult = Ok
    /\ lastIO = <<>>
    /\ used_up
    /\ accepted # {}

\* C4: close() on a handle that holds no stream and is not used up returns
\* success, issues no OS call, changes no field and no OS object, and leaves
\* used_up false, so the reuse guard of a later connect() does not fire.
C4_CloseIdleNoOp ==
    [][(Close /\ stream = None /\ ~used_up) =>
         /\ lastResult' = Ok
         /\ lastIO' = <<>>
         /\ UNCHANGED fields
         /\ UNCHANGED os
         /\ ~used_up'
         /\ ~ReuseGuard(used_up')]_vars

\* C4 witness: close() has returned on a handle that never accepted a stream.
C4_Witness ==
    /\ lastOp = "close"
    /\ lastResult = Ok
    /\ accepted = {}
    /\ stream = None
    /\ ~used_up

\* C5: when close() is called with a stream held and the shutdown does not
\* succeed, close() returns the shutdown's error, and stream, used_up,
\* address, port and the stream's descriptor are unchanged.
C5_CloseFailureKeepsState ==
    [][(Close /\ stream # None /\ stream \notin shut') =>
         /\ lastResult' \in ShutdownErrors
         /\ lastIO' = <<"shutdown">>
         /\ UNCHANGED fields
         /\ UNCHANGED os
         /\ stream' \in open'
         /\ ~used_up']_vars

\* C5 witness: close() has returned a shutdown error and the stream is kept.
C5_Witness ==
    /\ lastOp = "close"
    /\ lastResult \in ShutdownErrors
    /\ stream # None
    /\ stream \in open
    /\ ~used_up

\* C6 as stated: once a connect() call has returned an error after attempting
\* a bind (the bind or the accept failed), stream is empty and used_up is
\* false.
C6_Original ==
    (/\ lastOp = "connect"
     /\ pc = "ready"
     /\ lastResult.tag = "Err"
     /\ lastIO # <<>>)
    => (stream = None /\ ~used_up)

\* C7: a stream is held only if accept() returned it to this handle and no
\* shutdown has succeeded on it since; no stream is held right after
\* construction nor right after a close() that returned success.
C7_StreamOnlyWhileConnected ==
    /\ stream # None => (stream \in accepted /\ stream \notin shut)
    /\ lastOp = "new" => stream = None
    /\ (lastOp = "close" /\ lastResult = Ok) => stream = None

\* C7 witness: a connect() has returned success and its stream is held.
C7_Witness ==
    /\ lastOp = "connect"
    /\ lastResult = Ok
    /\ stream # None
    /\ stream \in open

\* C8: once the handle has been dropped, no stream it ever accepted still has
\* an open descriptor, and no listener is left.
C8_TeardownLeakFree ==
    pc = "dropped" => (\A id \in accepted : id \notin open) /\ listener = None

\* C8 witness: the handle was dropped after accepting two streams, with the
\* shutdown run by Drop having failed.
C8_Witness ==
    /\ pc = "dropped"
    /\ Cardinality(accepted) >= 2
    /\ stream # None
    /\ ~used_up

\* C9: port is never "0" while a stream is held; while connect() waits in
\* accept() on a handle constructed with port "0", port is the decimal text
\* of the port the listener is bound to; and after connect() has returned
\* success on such a handle, port reads back as a port the OS assigned.
C9_PortResolved ==
    /\ stream # None => port # <<"0">>
    /\ (pc = "accepting" /\ port0 = <<"0">>) =>
         (port = ToString(listener) /\ ParsePort(port) = listener)
    /\ (port0 = <<"0">> /\ lastOp = "connect" /\ lastResult = Ok) =>
         (port # <<"0">> /\ ParsePort(port) \in EphemeralPorts)

\* C9 witness: a handle constructed with port "0" holds an accepted stream.
C9_Witness ==
    /\ port0 = <<"0">>
    /\ lastOp = "connect"
    /\ lastResult = Ok
    /\ stream # None

\* C10: port changes only in a connect() step whose bind succeeded while port
\* was "0", the value it was constructed with, and it never changes again; a
\* handle constructed with another port keeps it; close() and Drop never
\* change port; address never changes.
C10_PortWrittenOnce ==
    [][/\ (port' # port) =>
            /\ ConnectBound
            /\ port = <<"0">>
            /\ port0 = <<"0">>
            /\ port' = ToString(listener')
       /\ (port # port0) => port' = port
       /\ (port0 # <<"0">>) => port' = port0
       /\ (Close \/ Drop) => port' = port
       /\ address' = address]_vars

\* C10 witness: the port was resolved by a connect() and the handle has since
\* been connected again, closed and dropped.
C10_Witness ==
    /\ port # port0
    /\ pc = "dropped"
    /\ used_up
    /\ Cardinality(accepted) >= 2

\* C11 as stated: connect() called with a stream held and used_up false is
\* not rejected and starts with a bind; when its accept succeeds the held
\* stream is replaced by the new one, and no shutdown has ever been issued on
\* the stream that was replaced.
C11_Original ==
    [][/\ (Connect /\ stream # None /\ ~used_up) =>
            (lastResult' # ReuseError /\ lastIO' # <<>> /\ lastIO'[1] = "bind")
       /\ (ConnectAccepted /\ stream # None) =>
            /\ stream' = NewStream
            /\ stream' # stream
            /\ stream \notin tried']_vars

\* C11 as amended: connect() called with a stream held and used_up false is
\* not rejected and starts with a bind; when its accept succeeds the held
\* stream is replaced by the new one, connect() itself issues no shutdown, and
\* no shutdown has ever succeeded on the stream that was replaced.
C11_ReplacedWithoutShutdown ==
    [][/\ (Connect /\ stream # None /\ ~used_up) =>
            (lastResult' # ReuseError /\ lastIO' # <<>> /\ lastIO'[1] = "bind")
       /\ (ConnectAccepted /\ stream # None) =>
            /\ stream' = NewStream
            /\ stream' # stream
            /\ lastIO'[1] = "bind"
            /\ lastIO'[Len(lastIO')] = "accept"
            /\ \A i \in 1..Len(lastIO') : lastIO'[i] # "shutdown"
            /\ tried' = tried
            /\ shut' = shut
            /\ stream \notin shut']_vars

\* C11 witness: a second connect() has returned success and replaced a
\* stream on which no shutdown has succeeded.
C11_Witness ==
    /\ lastOp = "connect"
    /\ lastResult = Ok
    /\ Cardinality(accepted) >= 2
    /\ stream # None
    /\ shut = {}
    /\ ~used_up

\* C12: whenever connect() is not in progress (it has returned by any path,
\* or was never called) no listener of this handle exists and no inbound
\* connection waits on one; at every moment at most one accepted stream is
\* open, and between calls it is exactly the stream the handle holds.
C12_ListenerNeverOutlivesConnect ==
    /\ pc # "accepting" => (listener = None /\ backlog = 0)
    /\ pc = "accepting" => listener # None
    /\ Cardinality(open) <= 1
    /\ pc = "ready" => open = (IF stream = None THEN {} ELSE {stream})

\* C12 witness: connect() has returned an accept error on a handle that
\* already held a stream; no listener is left and one stream is open.
C12_Witness ==
    /\ lastOp = "connect"
    /\ lastResult \in AcceptErrors
    /\ pc = "ready"
    /\ listener = None
    /\ stream # None
    /\ open = {stream}

\* C13: every teardown step completes and reports nothing, whatever the
\* shutdown does. With no stream held (Idle or Closed) it issues no OS call
\* and changes neither stream nor used_up. With a stream held it issues
\* exactly one shutdown, on that stream: if the shutdown succeeds the handle
\* ends with used_up true and stream cleared, if it fails stream and used_up
\* are as before. address and port are untouched.
C13_TeardownIsClose ==
    [][Drop =>
         /\ pc' = "dropped"
         /\ lastResult' = Unit
         /\ UNCHANGED <<address, port>>
         /\ stream = None =>
              /\ lastIO' = <<>>
              /\ tried' = tried
              /\ UNCHANGED <<stream, used_up, shut>>
         /\ stream # None =>
              /\ lastIO' = <<"shutdown">>
              /\ tried' = tried \cup {stream}
              /\ \/ /\ shut' = shut \cup {stream}
                    /\ used_up'
                    /\ stream' = None
                 \/ /\ shut' = shut
                    /\ UNCHANGED <<stream, used_up>>]_vars

\* C13 witness: the handle was dropped while Connected and the shutdown
\* failed; teardown completed with stream and used_up as they were.
C13_Witness ==
    /\ pc = "dropped"
    /\ lastOp = "drop"
    /\ lastResult = Unit
    /\ lastIO = <<"shutdown">>
    /\ stream # None
    /\ stream \notin shut
    /\ ~used_up

\* C14: a connect() blocked in accept() leaves that state only by accept()
\* returning: with success, which needs a client waiting on the listener and
\* stores a new stream, or with an OS accept error; while it stays blocked
\* nothing changes but clients arriving. So with no client and no OS failure
\* it stays blocked forever. Once a client waits on the listener, connect()
\* eventually returns: with success and a stream held, unless accept() failed.
C14_BlocksUntilClient ==
    /\ [][(pc = "accepting" /\ pc' # "accepting") =>
            /\ pc' = "ready"
            /\ \/ /\ backlog > 0
                  /\ lastResult' = Ok
                  /\ stream' # None
                  /\ stream' \notin accepted
                  /\ stream' \in open'
               \/ lastResult' \in AcceptErrors]_vars
    /\ [][(pc = "accepting" /\ pc' = "accepting") =>
            /\ backlog' = backlog + 1
            /\ lastResult' = Pending
            /\ UNCHANGED <<fields, listener, accepted, open>>]_vars
    /\ (pc = "accepting" /\ backlog > 0) ~>
          /\ pc = "ready"
          /\ lastOp = "connect"
          /\ \/ lastResult = Ok /\ stream # None
             \/ lastResult \in AcceptErrors

\* C14 witness: connect() is blocked in accept() and a client has dialled.
C14_Witness ==
    /\ pc = "accepting"
    /\ lastResult = Pending
    /\ listener # None
    /\ backlog > 0

\* How many times the OS call x occurs in the call log io.
Occurrences(io, x) == Cardinality({i \in 1..Len(io) : io[i] = x})

\* C15: the OS calls of a connect() call contain at most one bind and at most
\* one accept, the bind first; an accept is issued only by a call whose bind
\* succeeded (its listener exists); a connect() whose bind fails returns
\* having issued the bind alone; a connect() that succeeds has issued one
\* bind and one accept, took one waiting client and holds exactly the one
\* stream that accept returned.
C15_OneBindOneAccept ==
    [][/\ lastOp' = "connect" =>
            /\ Occurrences(lastIO', "bind") <= 1
            /\ Occurrences(lastIO', "accept") <= 1
            /\ lastIO' # <<>> => lastIO'[1] = "bind"
       /\ (lastOp' = "connect" /\ Occurrences(lastIO', "accept") >
                                  Occurrences(lastIO, "accept")) =>
            /\ pc = "accepting"
            /\ listener # None
            /\ lastOp = "connect"
            /\ lastIO[1] = "bind"
            /\ lastIO' = Append(lastIO, "accept")
       /\ ConnectBindErr =>
            /\ lastIO' = <<"bind">>
            /\ pc' = "ready"
            /\ listener' = None
       /\ (lastOp' = "connect" /\ lastResult' = Ok /\ lastResult # Ok) =>
            /\ Occurrences(lastIO', "bind") = 1
            /\ Occurrences(lastIO', "accept") = 1
            /\ backlog >= 1
            /\ stream' \notin accepted
            /\ accepted' = accepted \cup {stream'}]_vars

\* C15 witness: a connect() on port "0" has returned success after one bind
\* and one accept.
C15_Witness ==
    /\ lastOp = "connect"
    /\ lastResult = Ok
    /\ lastIO = <<"bind", "local_addr", "accept">>
    /\ stream # None
    /\ accepted = {stream}

\* Every error a failed TcpListener::bind can return in this model.
BindFailures == BindErrors \cup {Err("InvalidInput", "invalid port value")}

\* C16: a call returns the reuse error only if it is a connect() made while
\* used_up was true (and then without any OS call). A connect() made with
\* used_up false either blocks in accept or returns a bind error, and when it
\* returns from accept it returns success or an accept error; close() returns
\* success or a shutdown error, never the reuse error.
C16_ReuseErrorOnlyWhenUsedUp ==
    [][/\ lastResult' = ReuseError =>
            /\ lastOp' = "connect"
            /\ used_up
            /\ lastIO' = <<>>
       /\ (Connect /\ ~used_up) =>
            /\ lastResult' \in {Pending} \cup BindFailures
            /\ lastResult' # ReuseError
       /\ (pc = "accepting" /\ pc' = "ready") =>
            /\ lastResult' \in {Ok} \cup AcceptErrors
            /\ lastResult' # ReuseError
       /\ Close =>
            /\ lastResult' \in {Ok} \cup ShutdownErrors
            /\ lastResult' # ReuseError]_vars

\* C16 witness: the reuse error has been returned, by a connect() on a handle
\* whose stream was shut down by a successful close().
C16_Witness ==
    /\ lastResult = ReuseError
    /\ lastIO = <<>>
    /\ stream = None
    /\ shut # {}

\* The three states of the handle.
Idle == stream = None /\ ~used_up
Connected == stream # None /\ ~used_up
Closed == stream = None /\ used_up

\* C17: in every state reached, used_up implies that no stream is held, so
\* the handle is in exactly one of Idle, Connected and Closed; and from
\* Closed every step (connect(), close() or teardown) leads to Closed again,
\* so a stream is never held again.
C17_ClosedIsTerminal ==
    [][/\ used_up' => stream' = None
       /\ Cardinality({k \in {"Idle", "Connected", "Closed"} :
                         \/ k = "Idle" /\ Idle'
                         \/ k = "Connected" /\ Connected'
                         \/ k = "Closed" /\ Closed'}) = 1
       /\ Closed => Closed']_vars

\* C17 witness: a handle that accepted a stream and reached Closed has been
\* dropped from Closed, and is still Closed.
C17_Witness ==
    /\ Closed
    /\ lastOp = "drop"
    /\ lastIO = <<>>
    /\ pc = "dropped"
    /\ accepted # {}

\* C18: when the bind of a connect() succeeds with port "0", port holds the
\* decimal text of the bound port from that step on, while the call is still
\* waiting in accept(); if the accept then fails, connect() returns the error
\* and port keeps the resolved port; and a later connect() on that handle
\* binds the port that port now names, not a newly assigned one.
C18_PortResolvedBeforeAccept ==
    [][/\ (ConnectBound /\ port = <<"0">>) =>
            /\ pc' = "accepting"
            /\ lastResult' = Pending
            /\ listener' \in EphemeralPorts
            /\ port' = ToString(listener')
            /\ port' # <<"0">>
       /\ (pc = "accepting" /\ lastResult' \in AcceptErrors
                            /\ port0 = <<"0">>) =>
            /\ port' = port
            /\ port' # <<"0">>
            /\ ParsePort(port') = listener
       /\ (ConnectBound /\ port0 = <<"0">> /\ port # <<"0">>) =>
            /\ listener' = ParsePort(port)
            /\ port' = port]_vars

\* C18 witness: on a handle constructed with port "0", connect() has returned
\* an accept error and port holds a resolved port.
C18_Witness ==
    /\ port0 = <<"0">>
    /\ lastOp = "connect"
    /\ lastResult \in AcceptErrors
    /\ pc = "ready"
    /\ port # <<"0">>
    /\ ParsePort(port) \in EphemeralPorts

====
